---- MODULE Spec2Model ----
(***************************************************************************)
(* Model of server.js: the pairing-code registry, the phone normaliser,    *)
(* the HTTP endpoints and the connection manager around the external       *)
(* messaging session.                                                      *)
(*                                                                         *)
(* Time is in seconds (every duration of the source is a whole number of   *)
(* seconds; 30 days of milliseconds exceed the checker's integers).        *)
(* Timers fire on time: the clock never passes the due time of a pending   *)
(* timer.  The external                                                    *)
(* library, the file system and the QR renderer are the environment: their *)
(* events and failures are nondeterministic inputs of the actions.         *)
(***************************************************************************)
EXTENDS Integers, Sequences, FiniteSets, Bags, TLC

VARIABLES
  pc,                      \* "load" before the module body ran, then "running",
                           \* "closing" once SIGINT was handled, "exited"
  shutdown,                \* what the shutdown has done so far, in order
  now,                     \* Date.now()
  activeSocket,            \* <<>> (null) or <<id>>
  currentQR,               \* <<>> (null) or <<q>>
  qrImageDataUrl,          \* <<>> (null) or <<q>>: the rendering of payload q
  pairingCodes,            \* the Map code -> record
  botStatus,
  lastGeneratedCode,       \* <<>> (null), <<"raw", code>> or <<"display", sessionId>>
  autoActivationAttempts,
  sockets,                 \* handles of the library that can still emit events
  inits,                   \* initWhatsApp calls suspended at an await
  qrHandlers,              \* connection.update handlers suspended at the render
  getqrCalls,              \* /getqr requests suspended at the render, a bag
  timers,                  \* pending setTimeout callbacks, a bag
  sessionFile,             \* <<>> (absent) or <<SessionStatus>>
  credsFile,               \* TRUE when auth_info holds the library's creds.json
  seq,                     \* the handles and QR payloads created so far
  budget,                  \* what the environment may still do
  response,                \* the HTTP response the step just taken sent, if any
  fn                       \* a call of a pure function followed on its own:
                           \* its inputs, its progress and its result

state == <<activeSocket, currentQR, qrImageDataUrl, pairingCodes, botStatus,
           lastGeneratedCode, autoActivationAttempts>>
vars == <<pc, shutdown, fn, now, activeSocket, currentQR, qrImageDataUrl, pairingCodes,
          botStatus, lastGeneratedCode, autoActivationAttempts, sockets, inits,
          qrHandlers, getqrCalls, timers, sessionFile, credsFile, seq, budget,
          response>>

\* ---------------------------------------------------------------- bounds
MaxQr == 1           \* qr-available events
MaxOpen == 2         \* connection-open events
MaxClose == 1        \* connection-closed events
MaxFaults == 1       \* failures of the environment (init, render, write, unlink)
MaxRequests == 1     \* HTTP requests that generate a code
NumCodes == 2        \* values generateAlphanumericCode can return
MaxSigint == 1       \* SIGINT signals
MaxQrRotations == 4  \* qr-available events of a handle nobody scans
MaxInitFailures == 4 \* initialization failures in a row
NumDrawSamples == 2  \* values Math.random takes per character of a code
MaxRedraws == 1      \* rejected draws of generateAlphanumericCode counted
MaxDigits == 16      \* digits in the longest phone input tried

\* What the environment does in a run is drawn from these budgets: a fault-free
\* run through linking, dropping and linking again, without code requests; a
\* run up to the first open with a code request, in which one operation may
\* fail; a run from open to close in which one operation may fail; a run in
\* which the process is told to shut down; a run in which the QR rotates and
\* nobody scans it; a run in which initialization keeps failing; a run in
\* which the QR rotates once while codes are requested; a run from open to
\* close in which a code is requested.
Budgets ==
  { [qr |-> MaxQr, open |-> MaxOpen, close |-> MaxClose, faults |-> 0,
     requests |-> 0, sigint |-> 0],
    [qr |-> MaxQr, open |-> MaxOpen - 1, close |-> 0, faults |-> MaxFaults,
     requests |-> MaxRequests, sigint |-> 0],
    [qr |-> 0, open |-> MaxOpen - 1, close |-> MaxClose, faults |-> MaxFaults,
     requests |-> 0, sigint |-> 0],
    [qr |-> 0, open |-> MaxOpen - 1, close |-> MaxClose, faults |-> 0,
     requests |-> 0, sigint |-> MaxSigint],
    [qr |-> MaxQrRotations, open |-> 0, close |-> 0, faults |-> 0,
     requests |-> 0, sigint |-> 0],
    [qr |-> 0, open |-> 0, close |-> 0, faults |-> MaxInitFailures,
     requests |-> 0, sigint |-> 0],
    [qr |-> MaxQr + 1, open |-> 0, close |-> 0, faults |-> 0,
     requests |-> MaxRequests, sigint |-> 0],
    [qr |-> 0, open |-> MaxOpen - 1, close |-> MaxClose, faults |-> 0,
     requests |-> MaxRequests, sigint |-> 0] }

Codes == 1..NumCodes
\* crypto.randomBytes(3) in hex: one sample value; nothing branches on it.
Suffixes == {"3FA9C1"}

\* ------------------------------------------------------------- constants
MAX_AUTO_ACTIVATION_ATTEMPTS == 3
CODE_LENGTH == 8
CODE_EXPIRY_MINUTES == 10
CODE_EXPIRY_S == CODE_EXPIRY_MINUTES * 60
QR_SESSION_S == 7 * 24 * 60 * 60
CONNECTED_SESSION_S == 30 * 24 * 60 * 60
TEMPORARY_DELAY_S == 3
LOGGED_OUT_DELAY_S == 5
OTHER_DELAY_S == 5
RECOVERY_DELAY_S == 10
COOLDOWN_DELAY_S == 30

None == <<>>
Some(x) == <<x>>

\* ---------------------------------------------------------- phone numbers
\* A phone number is the sequence of its characters.
DigitChars == {"0", "1", "2", "3", "4", "5", "6", "7", "8", "9"}

RECURSIVE digitsOnly(_)
digitsOnly(s) ==
  IF s = <<>> THEN <<>>
  ELSE IF Head(s) \in DigitChars THEN <<Head(s)>> \o digitsOnly(Tail(s))
       ELSE digitsOnly(Tail(s))

Min(a, b) == IF a < b THEN a ELSE b

\* The request bodies tried: missing, letters only, and the number of the
\* spec's scenario.
PhoneInputs ==
  { <<>>,
    <<"a", "b", "c">>,
    <<"2", "5", "4", "7", "2", "3", "2", "7", "8", "5", "2", "6">> }

\* What the two parsing libraries may answer for an input: "intl" (the
\* strict parse accepts), "heur" (only the heuristic parse accepts) or
\* "none".  They accept nothing without digits or with more than 15.
LibAnswers(p) ==
  IF Len(digitsOnly(p)) \in 1..15 THEN {"intl", "heur", "none"} ELSE {"none"}

\* phoneNumber.trim() (line 98): white space at both ends is dropped.
RECURSIVE trimStart(_)
trimStart(s) ==
  IF s # <<>> /\ Head(s) = " " THEN trimStart(Tail(s)) ELSE s

RECURSIVE trimEnd(_)
trimEnd(s) ==
  IF s # <<>> /\ s[Len(s)] = " " THEN trimEnd(SubSeq(s, 1, Len(s) - 1)) ELSE s

trim(s) == trimEnd(trimStart(s))

\* Mutant: sixteen digits pass the basic validation.
basicValidation_Sixteen(d) == Len(d) >= 8 /\ Len(d) <= 16

\* The test of line 130.
basicValidation(d) == Len(d) >= 8 /\ Len(d) <= 15

\* Mutant: the assumed country code always has three digits.
countryCodeLength_Three(d) == 3

\* Math.min(3, digitsOnly.length - 7) (lines 135 and 137).
countryCodeLength(d) == Min(3, Len(d) - 7)

validateAndFormatPhoneNumber(p, lib) ==
  LET d == digitsOnly(trim(p))
      k == countryCodeLength(d)
  IN  IF lib = "intl"
        THEN [isValid |-> TRUE, formatted |-> <<"+">> \o d, country |-> "KE"]
      ELSE IF lib = "heur"
        THEN [isValid |-> TRUE, formatted |-> <<"+">> \o d, country |-> "KE"]
      ELSE IF basicValidation(d)
        THEN [isValid |-> TRUE, formatted |-> <<"+">> \o d, country |-> "Unknown",
              countryCode |-> SubSeq(d, 1, k),
              nationalNumber |-> SubSeq(d, k + 1, Len(d))]
      ELSE [isValid |-> FALSE]

\* ------------------------------------------------------- code generation
generateSessionId(t, r) == <<t, r>>
generateDisplayCode(sessionId) == <<"display", sessionId>>

\* Mutant: the expiry is computed in seconds where minutes are meant.
ExpiresAt_Short(t) == t + CODE_EXPIRY_MINUTES

ExpiresAt(t) == t + CODE_EXPIRY_S
ExpiryTimerDue(t) == t + CODE_EXPIRY_S

NewRecord(phone, country, sid, t, qr, image) ==
  [displayCode |-> generateDisplayCode(sid),
   phoneNumber |-> phone,
   country     |-> country,
   sessionId   |-> sid,
   status      |-> "pending",
   createdAt   |-> t,
   expiresAt   |-> ExpiresAt(t),
   linkedAt    |-> None,
   qrData      |-> qr,
   qrImage     |-> image]

\* pairingCodes.set(code, record)
MapSet(m, k, v) == [c \in DOMAIN m \cup {k} |-> IF c = k THEN v ELSE m[c]]
\* pairingCodes.delete(code)
MapDelete(m, k) == [c \in DOMAIN m \ {k} |-> m[c]]

\* Mutant: the callback is never scheduled.
setTimeout_Lost(bag, timer) == bag

\* Mutant: the callback is armed twice.
setTimeout_Twice(bag, timer) == bag (+) SetToBag({timer}) (+) SetToBag({timer})

\* setTimeout(callback, delay)
setTimeout(bag, timer) == bag (+) SetToBag({timer})

\* ------------------------------------------------------------- registry
\* generateNewPairingCode (lines 369-405): the registry after the call, the
\* value it returns and the expiry timer it arms.  code and r are the
\* random draws of generateAlphanumericCode and generateSessionId; qr and
\* image are currentQR and qrImageDataUrl when it runs; phone and country
\* are null (<<>>) or <<value>>, a phone being its sequence of characters.
RegistryAfterGenerate(reg, code, rec) == MapSet(reg, code, rec)

ExpiryTimer(code, t) == [kind |-> "expiry", code |-> code, due |-> ExpiryTimerDue(t)]

Generated(code, rec) ==
  [code |-> code, displayCode |-> rec.displayCode, sessionId |-> rec.sessionId,
   expiresAt |-> rec.expiresAt, country |-> rec.country]

\* Mutant: the expiry callback deletes without looking at the status.
ExpiryDeletes_Any(reg, code) == code \in DOMAIN reg

\* The expiry callback (lines 397-402).
ExpiryDeletes(reg, code) == code \in DOMAIN reg /\ reg[code].status = "pending"

RegistryAfterExpiry(reg, code) ==
  IF ExpiryDeletes(reg, code) THEN MapDelete(reg, code) ELSE reg

\* Mutant: the loop relinks every record, the linked ones included.
MarkLinked_All(reg, t) ==
  [c \in DOMAIN reg |-> [reg[c] EXCEPT !.status = "linked", !.linkedAt = Some(t)]]

\* Mutant: the loop sets the status and leaves linkedAt null.
MarkLinked_NoStamp(reg, t) ==
  [c \in DOMAIN reg |->
     IF reg[c].status = "pending"
       THEN [reg[c] EXCEPT !.status = "linked"]
       ELSE reg[c]]

\* The loop of the connection-open branch (lines 268-274).
MarkLinked(reg, t) ==
  [c \in DOMAIN reg |->
     IF reg[c].status = "pending"
       THEN [reg[c] EXCEPT !.status = "linked", !.linkedAt = Some(t)]
       ELSE reg[c]]

\* ---------------------------------------------------------- session file
QrSessionInfo(t) ==
  [createdAt |-> t, expiresAt |-> t + QR_SESSION_S, status |-> "qr_ready"]
\* Mutant: the connected session is given the 7 days of the qr_ready one.
ConnectedSessionInfo_Week(t) ==
  [createdAt |-> t, expiresAt |-> t + QR_SESSION_S, status |-> "connected"]

ConnectedSessionInfo(t) ==
  [createdAt |-> t, expiresAt |-> t + CONNECTED_SESSION_S, status |-> "connected"]

\* A status file left by an earlier run of the process.
PriorSessionInfo ==
  [createdAt |-> 0 - CONNECTED_SESSION_S, expiresAt |-> 0, status |-> "connected"]

\* fs.writeFileSync(sessionFile, ...): the file after the call.
WriteFile(old, content, ok) == IF ok THEN Some(content) ELSE old

\* ------------------------------------------------------------------ Init
\* The state of the process when server.js is loaded.
Loaded ==
  /\ pc = "load"
  /\ shutdown = <<>>
  /\ now = 0
  /\ activeSocket = None
  /\ currentQR = None
  /\ qrImageDataUrl = None
  /\ pairingCodes = <<>>
  /\ botStatus = "disconnected"
  /\ lastGeneratedCode = None
  /\ autoActivationAttempts = 0
  /\ sockets = {}
  /\ inits = {}
  /\ qrHandlers = {}
  /\ getqrCalls = EmptyBag
  /\ timers = EmptyBag
  /\ sessionFile = Some(PriorSessionInfo)
  /\ credsFile = TRUE
  /\ seq = [sock |-> 0, qr |-> 0]
  /\ response = None

Init ==
  /\ Loaded
  /\ budget \in Budgets
  /\ fn = None

\* The process runs: the module body has run and process.exit has not.
Live == pc \in {"running", "closing"}

\* The failures an action may draw: none once the fault budget is spent.
Outcomes == IF budget.faults > 0 THEN {TRUE, FALSE} ELSE {TRUE}
\* The budget after a step that used n of kind k and failed or not.
Spend(k, ok) ==
  [budget EXCEPT ![k] = @ - 1, !.faults = IF ok THEN @ ELSE @ - 1]
Fault(ok) == [budget EXCEPT !.faults = IF ok THEN @ ELSE @ - 1]

\* ---------------------------------------------------- connection manager
\* existingSession after lines 158-171: the parsed status file, or null when
\* there is no file or readFileSync / JSON.parse threw (caught at line 168).
ReadSession(file, ok) == IF file # None /\ ok THEN file ELSE None

\* Mutant: a status file that cannot be read ends the initialization.
StartInit_ReadThrows(autoActivate, s) ==
  \E ok \in BOOLEAN :
    /\ seq' = [s EXCEPT !.sock = @ + 1]
    /\ IF sessionFile # None /\ ~ok
         THEN botStatus' = "error" /\ inits' = inits
         ELSE /\ botStatus' = "connecting"
              /\ inits' = inits \cup
                   {[id |-> s.sock + 1, autoActivate |-> autoActivate,
                     existingSession |-> ReadSession(sessionFile, ok)]}

\* initWhatsApp up to its first await (lines 148-177).  The status file is
\* read into the local existingSession, which is only logged.
StartInit(autoActivate, s) ==
  \E ok \in BOOLEAN :
    /\ botStatus' = "connecting"
    /\ inits' = inits \cup
         {[id |-> s.sock + 1, autoActivate |-> autoActivate,
           existingSession |-> ReadSession(sessionFile, ok)]}
    /\ seq' = [s EXCEPT !.sock = @ + 1]

\* The module body (line 1270): initWhatsApp(true), then listen.
Boot ==
  /\ pc = "load"
  /\ pc' = "running"
  /\ StartInit(TRUE, seq)
  /\ response' = None
  /\ UNCHANGED <<shutdown, fn, now, activeSocket, currentQR, qrImageDataUrl,
                 pairingCodes,
                 lastGeneratedCode, autoActivationAttempts, sockets, qrHandlers,
                 getqrCalls, timers, sessionFile, credsFile, budget>>

\* initWhatsApp after its awaits, the handle obtained (lines 190-347).
InitOk(i) ==
  /\ Live
  /\ i \in inits
  /\ inits' = inits \ {i}
  /\ sockets' = sockets \cup {[id |-> i.id, autoActivate |-> i.autoActivate, st |-> "fresh"]}
  /\ activeSocket' = Some(i.id)
  /\ response' = None
  /\ UNCHANGED <<pc, shutdown, fn, now, currentQR, qrImageDataUrl, pairingCodes, botStatus,
                 lastGeneratedCode, autoActivationAttempts, qrHandlers, getqrCalls,
                 timers, sessionFile, credsFile, seq, budget>>

\* The retry the catch block arms (lines 353-364).
RetryTimer(attempts, t) ==
  IF attempts < MAX_AUTO_ACTIVATION_ATTEMPTS
    THEN [kind |-> "init", autoActivate |-> TRUE, reset |-> FALSE,
          due |-> t + RECOVERY_DELAY_S]
    ELSE [kind |-> "init", autoActivate |-> TRUE, reset |-> TRUE,
          due |-> t + COOLDOWN_DELAY_S]

\* initWhatsApp throwing before a handle is obtained (lines 349-365).
InitFail(i) ==
  /\ Live
  /\ i \in inits
  /\ FALSE \in Outcomes
  /\ inits' = inits \ {i}
  /\ botStatus' = "error"
  /\ timers' = setTimeout(timers, RetryTimer(autoActivationAttempts, now))
  /\ budget' = Fault(FALSE)
  /\ response' = None
  /\ UNCHANGED <<pc, shutdown, fn, now, activeSocket, currentQR, qrImageDataUrl, pairingCodes,
                 lastGeneratedCode, autoActivationAttempts, sockets, qrHandlers,
                 getqrCalls, sessionFile, credsFile, seq>>

\* ------------------------------------------------- connection.update
\* Mutant: the qr branch is taken on every handle.
QrBranchTaken_Always(s) == s \in sockets

\* The test of line 221 for an update of handle s that carries a qr.
QrBranchTaken(s) == s.autoActivate

\* The qr branch up to its await (lines 221-228), on handle s with payload
\* q.  A handle created with autoActivate false skips the branch.
QrEvent(s) ==
  /\ Live
  /\ s \in sockets /\ s.st = "fresh"
  /\ budget.qr > 0
  /\ budget' = Spend("qr", TRUE)
  /\ LET q == seq.qr + 1 IN
       /\ seq' = [seq EXCEPT !.qr = q]
       /\ response' = None
       /\ IF QrBranchTaken(s)
            THEN /\ currentQR' = Some(q)
                 /\ botStatus' = "qr_ready"
                 /\ qrHandlers' = qrHandlers \cup {[qr |-> q]}
            ELSE UNCHANGED <<currentQR, botStatus, qrHandlers>>
  /\ UNCHANGED <<pc, shutdown, fn, now, activeSocket, qrImageDataUrl, pairingCodes,
                 lastGeneratedCode, autoActivationAttempts, sockets, inits,
                 getqrCalls, timers, sessionFile, credsFile>>

\* The qr branch after QRCode.toDataURL settled (lines 228-256): rendered
\* says whether it resolved, written whether writeFileSync succeeded.
QrRendered(h, rendered, code, r, written) ==
  /\ Live
  /\ h \in qrHandlers
  /\ rendered \in Outcomes /\ written \in Outcomes
  /\ rendered \/ written
  /\ budget' = Fault(rendered /\ written)
  /\ qrHandlers' = qrHandlers \ {h}
  /\ IF rendered
       THEN LET sid == generateSessionId(now, r)
                rec == NewRecord(None, None, sid, now, currentQR, Some(h.qr))
            IN  /\ qrImageDataUrl' = Some(h.qr)
                /\ pairingCodes' = RegistryAfterGenerate(pairingCodes, code, rec)
                /\ timers' = setTimeout(timers, ExpiryTimer(code, now))
                /\ lastGeneratedCode' = <<"raw", code>>
                /\ sessionFile' = WriteFile(sessionFile, QrSessionInfo(now), written)
       ELSE UNCHANGED <<qrImageDataUrl, pairingCodes, timers, lastGeneratedCode,
                        sessionFile>>
  /\ autoActivationAttempts' = autoActivationAttempts + 1
  /\ response' = None
  /\ UNCHANGED <<pc, shutdown, fn, now, activeSocket, currentQR, botStatus, sockets, inits,
                 getqrCalls, credsFile, seq>>

\* The open branch (lines 259-287).  By the time the library reports open it
\* has saved its credentials through saveCreds (line 330).
OpenEvent(s, written) ==
  /\ Live
  /\ s \in sockets /\ s.st = "fresh"
  /\ budget.open > 0
  /\ written \in Outcomes
  /\ sockets' = (sockets \ {s}) \cup {[s EXCEPT !.st = "open"]}
  /\ botStatus' = "online"
  /\ autoActivationAttempts' = 0
  /\ pairingCodes' = MarkLinked(pairingCodes, now)
  /\ sessionFile' = WriteFile(sessionFile, ConnectedSessionInfo(now), written)
  /\ credsFile' = TRUE
  /\ budget' = Spend("open", written)
  /\ response' = None
  /\ UNCHANGED <<pc, shutdown, fn, now, activeSocket, currentQR, qrImageDataUrl,
                 lastGeneratedCode, inits, qrHandlers, getqrCalls, timers, seq>>

\* Classification of the close reason (lines 290-301).
Reasons == {"temporary", "loggedOut", "other"}

\* Mutant: every reconnect asks for a fresh QR.
ReconnectAutoActivate_Always(reason) == reason \in Reasons

ReconnectAutoActivate(reason) == reason = "loggedOut"
DeletesCredentials(reason) == reason = "loggedOut"
\* Mutant: every close is followed by the same delay.
ReconnectDelay_Flat(reason) == OTHER_DELAY_S

\* The delays of lines 300, 317 and 320.
ReconnectDelay(reason) ==
  CASE reason = "temporary" -> TEMPORARY_DELAY_S
    [] reason = "loggedOut" -> LOGGED_OUT_DELAY_S
    [] OTHER -> OTHER_DELAY_S

ReconnectTimer(reason, t) ==
  [kind |-> "init", autoActivate |-> ReconnectAutoActivate(reason), reset |-> FALSE,
   due |-> t + ReconnectDelay(reason)]

\* The close branch (lines 289-322).  A handle ended by the process itself
\* closes without a status code, which counts as temporary.  Every .json file of auth_info is
\* unlinked on logged-out, the status file among them; unlinkedCreds and
\* unlinkedSession say whether each unlinkSync succeeded.
CloseEvent(s, reason, unlinkedCreds, unlinkedSession) ==
  /\ Live
  /\ s \in sockets
  /\ s.st = "ended" => reason = "temporary"
  /\ budget.close > 0
  /\ unlinkedCreds \in Outcomes /\ unlinkedSession \in Outcomes
  /\ unlinkedCreds \/ unlinkedSession
  /\ DeletesCredentials(reason) \/ (unlinkedCreds /\ unlinkedSession)
  /\ sockets' = sockets \ {s}
  /\ timers' = setTimeout(timers, ReconnectTimer(reason, now))
  /\ IF DeletesCredentials(reason)
       THEN /\ credsFile' = (credsFile /\ ~unlinkedCreds)
            /\ sessionFile' = IF unlinkedSession THEN None ELSE sessionFile
       ELSE UNCHANGED <<credsFile, sessionFile>>
  /\ budget' = Spend("close", unlinkedCreds /\ unlinkedSession)
  /\ response' = None
  /\ UNCHANGED <<pc, shutdown, fn, now, activeSocket, currentQR, qrImageDataUrl, pairingCodes,
                 botStatus, lastGeneratedCode, autoActivationAttempts, inits,
                 qrHandlers, getqrCalls, seq>>

\* ---------------------------------------------------------------- timers
\* A setTimeout callback runs: the expiry of a code (lines 397-402), or a
\* reconnect or retry (lines 300, 317, 320, 356, 360-363).
FireTimer(t) ==
  /\ Live
  /\ BagIn(t, timers)
  /\ t.due <= now
  /\ timers' = timers (-) SetToBag({t})
  /\ response' = None
  /\ IF t.kind = "expiry"
       THEN /\ pairingCodes' = RegistryAfterExpiry(pairingCodes, t.code)
            /\ UNCHANGED <<botStatus, inits, seq, autoActivationAttempts>>
       ELSE /\ autoActivationAttempts' = IF t.reset THEN 0 ELSE autoActivationAttempts
            /\ StartInit(t.autoActivate, seq)
            /\ UNCHANGED pairingCodes
  /\ UNCHANGED <<pc, shutdown, fn, now, activeSocket, currentQR, qrImageDataUrl,
                 lastGeneratedCode, sockets, qrHandlers, getqrCalls, sessionFile,
                 credsFile, budget>>

Dues == {t.due : t \in BagToSet(timers)}

\* Time passes until the next timer is due.
Advance ==
  /\ Live
  /\ Dues # {}
  /\ \A d \in Dues : d > now
  /\ now' = CHOOSE d \in Dues : \A e \in Dues : d <= e
  /\ response' = None
  /\ UNCHANGED <<pc, shutdown, fn, activeSocket, currentQR, qrImageDataUrl, pairingCodes,
                 botStatus, lastGeneratedCode, autoActivationAttempts, sockets,
                 inits, qrHandlers, getqrCalls, timers, sessionFile, credsFile, seq,
                 budget>>

\* ------------------------------------------------------------- HTTP API
\* Mutant: the error state counts as ready.
ReadyForCodes_ErrorReady(status) ==
  status = "qr_ready" \/ status = "online" \/ status = "error"

\* The readiness test of /generate-code (line 1101).
ReadyForCodes(status) == status = "qr_ready" \/ status = "online"

\* Mutant: readiness is tested before the number is validated.
GenerateCodeStatus_ReadyFirst(p, v, status) ==
  IF ~(status = "qr_ready" \/ status = "online") THEN 503
  ELSE IF p = <<>> THEN 400
  ELSE IF ~v.isValid THEN 400
  ELSE 200

\* The answer of /generate-code (lines 1084-1106): 400, 503 or go on (200).
\* p is the body's phoneNumber, v its validation.
GenerateCodeStatus(p, v, status) ==
  IF p = <<>> THEN 400
  ELSE IF ~v.isValid THEN 400
  ELSE IF ~ReadyForCodes(status) THEN 503
  ELSE 200

\* Mutant: the online branch is missing, an online service answers not ready.
GetQrBranch_NoOnline(p, v, status, qr) ==
  IF p = <<>> THEN "bad-request"
  ELSE IF ~v.isValid THEN "bad-request"
  ELSE IF status = "qr_ready" /\ qr # None THEN "qr"
  ELSE "not-ready"

\* The branch /getqr takes (lines 1137-1152, 1154, 1184, 1201).
GetQrBranch(p, v, status, qr) ==
  IF p = <<>> THEN "bad-request"
  ELSE IF ~v.isValid THEN "bad-request"
  ELSE IF status = "qr_ready" /\ qr # None THEN "qr"
  ELSE IF status = "online" THEN "online"
  ELSE "not-ready"

\* The responses: bot is botStatus when the handler chose its branch.
BadRequest(op) ==
  Some([op |-> op, status |-> 400, success |-> FALSE, bot |-> botStatus])
NotReady(op) ==
  Some([op |-> op, status |-> 503, success |-> FALSE, bot |-> botStatus])
ServerError(op, bot) ==
  Some([op |-> op, status |-> 500, success |-> FALSE, bot |-> bot])
Success(op, bot, g, phone, country, image) ==
  Some([op |-> op, status |-> 200, success |-> TRUE, bot |-> bot,
        code |-> g.code, displayCode |-> g.displayCode, phoneNumber |-> phone,
        country |-> country, sessionId |-> g.sessionId,
        expiresAt |-> g.expiresAt, qrImage |-> image])


\* POST /generate-code (lines 1080-1131) with body phoneNumber p.
GenerateCode(p, lib) ==
  /\ Live
  /\ LET v == validateAndFormatPhoneNumber(p, lib)
         answer == GenerateCodeStatus(p, v, botStatus)
     IN
       IF answer = 400
         THEN /\ response' = BadRequest("generate-code")
              /\ UNCHANGED <<pairingCodes, lastGeneratedCode, timers, budget>>
       ELSE IF answer = 503
         THEN /\ response' = NotReady("generate-code")
              /\ UNCHANGED <<pairingCodes, lastGeneratedCode, timers, budget>>
       ELSE \E code \in Codes, r \in Suffixes :
            LET sid == generateSessionId(now, r)
                rec == NewRecord(v.formatted, Some(v.country), sid, now, currentQR,
                                 qrImageDataUrl)
            IN  /\ budget.requests > 0
                /\ budget' = Spend("requests", TRUE)
                /\ pairingCodes' = RegistryAfterGenerate(pairingCodes, code, rec)
                /\ timers' = setTimeout(timers, ExpiryTimer(code, now))
                /\ lastGeneratedCode' = rec.displayCode
                /\ response' = Success("generate-code", botStatus,
                                       Generated(code, rec), v.formatted,
                                       v.country, None)
  /\ UNCHANGED <<pc, shutdown, fn, now, activeSocket, currentQR, qrImageDataUrl, botStatus,
                 autoActivationAttempts, sockets, inits, qrHandlers, getqrCalls,
                 sessionFile, credsFile, seq>>

\* POST /getqr (lines 1133-1215) up to its response, or up to the await of
\* line 1157 when no image is held.
GetQr(p, lib) ==
  /\ Live
  /\ LET v == validateAndFormatPhoneNumber(p, lib)
         branch == GetQrBranch(p, v, botStatus, currentQR)
     IN
       IF branch = "bad-request"
         THEN /\ response' = BadRequest("getqr")
              /\ UNCHANGED <<pairingCodes, lastGeneratedCode, timers, getqrCalls,
                             budget>>
       ELSE IF branch = "not-ready"
         THEN /\ response' = NotReady("getqr")
              /\ UNCHANGED <<pairingCodes, lastGeneratedCode, timers, getqrCalls,
                             budget>>
       ELSE IF branch = "qr" /\ qrImageDataUrl = None
         THEN /\ budget.requests > 0
              /\ budget' = Spend("requests", TRUE)
              /\ getqrCalls' = getqrCalls (+) SetToBag(
                   {[phone |-> v.formatted, country |-> v.country,
                     qr |-> currentQR[1], bot |-> botStatus]})
              /\ response' = None
              /\ UNCHANGED <<pairingCodes, lastGeneratedCode, timers>>
       ELSE \E code \in Codes, r \in Suffixes :
            LET sid == generateSessionId(now, r)
                rec == NewRecord(v.formatted, Some(v.country), sid, now, currentQR,
                                 qrImageDataUrl)
            IN
            /\ budget.requests > 0
            /\ budget' = Spend("requests", TRUE)
            /\ pairingCodes' = RegistryAfterGenerate(pairingCodes, code, rec)
            /\ timers' = setTimeout(timers, ExpiryTimer(code, now))
            /\ lastGeneratedCode' = rec.displayCode
            /\ response' = Success("getqr", botStatus, Generated(code, rec),
                                   v.formatted, v.country,
                                   IF branch = "qr" THEN qrImageDataUrl ELSE None)
            /\ UNCHANGED getqrCalls
  /\ UNCHANGED <<pc, shutdown, fn, now, activeSocket, currentQR, qrImageDataUrl, botStatus,
                 autoActivationAttempts, sockets, inits, qrHandlers, sessionFile,
                 credsFile, seq>>

\* POST /getqr after QRCode.toDataURL settled (lines 1157-1183).
GetQrRendered(c, rendered, code, r) ==
  /\ Live
  /\ BagIn(c, getqrCalls)
  /\ rendered \in Outcomes
  /\ budget' = Fault(rendered)
  /\ getqrCalls' = getqrCalls (-) SetToBag({c})
  /\ IF rendered
       THEN LET sid == generateSessionId(now, r)
                rec == NewRecord(c.phone, Some(c.country), sid, now, currentQR,
                                 Some(c.qr))
            IN  /\ qrImageDataUrl' = Some(c.qr)
                /\ pairingCodes' = RegistryAfterGenerate(pairingCodes, code, rec)
                /\ timers' = setTimeout(timers, ExpiryTimer(code, now))
                /\ lastGeneratedCode' = rec.displayCode
                /\ response' = Success("getqr", c.bot, Generated(code, rec),
                                   c.phone, c.country, Some(c.qr))
       ELSE /\ response' = ServerError("getqr", c.bot)
            /\ UNCHANGED <<qrImageDataUrl, pairingCodes, timers, lastGeneratedCode>>
  /\ UNCHANGED <<pc, shutdown, fn, now, activeSocket, currentQR, botStatus,
                 autoActivationAttempts, sockets, inits, qrHandlers, sessionFile,
                 credsFile, seq>>

\* GET /status (lines 1217-1231) and GET /health (lines 1233-1246).
StatusBody ==
  [op |-> "status", status |-> 200, bot |-> botStatus, hasQR |-> (botStatus = "qr_ready"),
   pairingCodes |-> Cardinality(DOMAIN pairingCodes),
   lastCode |-> lastGeneratedCode,
   autoActivationAttempts |-> autoActivationAttempts,
   maxAutoActivationAttempts |-> MAX_AUTO_ACTIVATION_ATTEMPTS]
HealthBody ==
  [op |-> "health", status |-> 200, bot |-> botStatus, qrReady |-> (botStatus = "qr_ready"),
   codes |-> Cardinality(DOMAIN pairingCodes),
   lastGeneratedCode |-> lastGeneratedCode]

GetStatus ==
  /\ Live
  /\ response' = Some(StatusBody)
  /\ UNCHANGED <<pc, shutdown, fn, now, activeSocket, currentQR, qrImageDataUrl, pairingCodes,
                 botStatus, lastGeneratedCode, autoActivationAttempts, sockets,
                 inits, qrHandlers, getqrCalls, timers, sessionFile, credsFile, seq,
                 budget>>

GetHealth_ClearsCode ==
  /\ Live
  /\ response' = Some(HealthBody)
  /\ lastGeneratedCode' = None
  /\ UNCHANGED <<pc, shutdown, fn, now, activeSocket, currentQR, qrImageDataUrl, pairingCodes,
                 botStatus, autoActivationAttempts, sockets,
                 inits, qrHandlers, getqrCalls, timers, sessionFile, credsFile, seq,
                 budget>>

GetHealth ==
  /\ Live
  /\ response' = Some(HealthBody)
  /\ UNCHANGED <<pc, shutdown, fn, now, activeSocket, currentQR, qrImageDataUrl, pairingCodes,
                 botStatus, lastGeneratedCode, autoActivationAttempts, sockets,
                 inits, qrHandlers, getqrCalls, timers, sessionFile, credsFile, seq,
                 budget>>

\* --------------------------------------------------------------- shutdown
\* Mutant: the listener is asked to close before the handle is ended.
SigintLog_ListenerFirst(handle) ==
  <<"server.close">> \o (IF handle # None THEN <<"handle.end">> ELSE <<>>)

\* What the SIGINT handler does, in order (lines 1296-1303): it ends the
\* handle held in activeSocket, if any, then asks the listener to close.
SigintLog(handle) ==
  (IF handle # None THEN <<"handle.end">> ELSE <<>>) \o <<"server.close">>

\* process.on('SIGINT') (lines 1293-1304).
Sigint ==
  /\ Live
  /\ budget.sigint > 0
  /\ budget' = Spend("sigint", TRUE)
  /\ shutdown' = shutdown \o SigintLog(activeSocket)
  /\ pc' = "closing"
  /\ sockets' = {IF activeSocket = Some(s.id) THEN [s EXCEPT !.st = "ended"] ELSE s :
                   s \in sockets}
  /\ response' = None
  /\ UNCHANGED <<fn, now, activeSocket, currentQR, qrImageDataUrl, pairingCodes,
                 botStatus, lastGeneratedCode, autoActivationAttempts, inits,
                 qrHandlers, getqrCalls, timers, sessionFile, credsFile, seq>>

\* The callback of server.close (lines 1300-1303): the listener has closed,
\* the process exits.
ListenerClosed ==
  /\ pc = "closing"
  /\ pc' = "exited"
  /\ shutdown' = shutdown \o <<"listener closed", "process.exit">>
  /\ response' = None
  /\ UNCHANGED <<fn, now, activeSocket, currentQR, qrImageDataUrl, pairingCodes,
                 botStatus, lastGeneratedCode, autoActivationAttempts, sockets,
                 inits, qrHandlers, getqrCalls, timers, sessionFile, credsFile, seq,
                 budget>>

\* ------------------------------------------------------------------ Next
Next ==
  \/ Boot
  \/ \E i \in inits : InitOk(i)
  \/ \E i \in inits : InitFail(i)
  \/ \E s \in sockets : QrEvent(s)
  \/ \E h \in qrHandlers, rendered \in BOOLEAN, code \in Codes, r \in Suffixes,
        written \in BOOLEAN : QrRendered(h, rendered, code, r, written)
  \/ \E s \in sockets, written \in BOOLEAN : OpenEvent(s, written)
  \/ \E s \in sockets, reason \in Reasons, uc \in BOOLEAN, us \in BOOLEAN :
        CloseEvent(s, reason, uc, us)
  \/ \E t \in BagToSet(timers) : FireTimer(t)
  \/ Advance
  \/ \E p \in PhoneInputs : \E lib \in LibAnswers(p) : GenerateCode(p, lib)
  \/ \E p \in PhoneInputs : \E lib \in LibAnswers(p) : GetQr(p, lib)
  \/ \E c \in BagToSet(getqrCalls), rendered \in BOOLEAN, code \in Codes, r \in Suffixes :
        GetQrRendered(c, rendered, code, r)
  \/ GetStatus
  \/ GetHealth
  \/ Sigint
  \/ ListenerClosed

Spec == Init /\ [][Next]_vars

\* The event loop runs every timer that is due, and time passes.
TimersFire ==
  /\ WF_vars(\E t \in BagToSet(timers) : FireTimer(t))
  /\ WF_vars(Advance)

LiveSpec == Spec /\ TimersFire

\* Besides, an initialization that can obtain its handle obtains one, a
\* handle that has a qr to emit emits it, a rendering settles, and the
\* listener asked to close closes.
LibraryResponds ==
  /\ WF_vars(\E i \in inits : InitOk(i))
  /\ WF_vars(\E s \in sockets : QrEvent(s))
  /\ WF_vars(\E h \in qrHandlers, code \in Codes, r \in Suffixes :
               QrRendered(h, TRUE, code, r, TRUE))
  /\ WF_vars(ListenerClosed)

UnlinkedSpec == Spec /\ TimersFire /\ LibraryResponds

\* ------------------------------------------------------- pure functions
\* The functions below are followed on their own: fn holds one call, the
\* rest of the process stays as loaded.
world == <<pc, shutdown, now, activeSocket, currentQR, qrImageDataUrl,
           pairingCodes, botStatus, lastGeneratedCode, autoActivationAttempts,
           sockets, inits, qrHandlers, getqrCalls, timers, sessionFile,
           credsFile, seq, budget, response>>

NoEvents ==
  [qr |-> 0, open |-> 0, close |-> 0, faults |-> 0, requests |-> 0, sigint |-> 0]

\* chars of generateAlphanumericCode (line 54); charAt counts from 0.
AlnumChars ==
  <<"A", "B", "C", "D", "E", "F", "G", "H", "I", "J", "K", "L", "M", "N", "O",
    "P", "Q", "R", "S", "T", "U", "V", "W", "X", "Y", "Z",
    "0", "1", "2", "3", "4", "5", "6", "7", "8", "9">>
charAt(chars, k) == chars[k + 1]

UpperCase ==
  {"A", "B", "C", "D", "E", "F", "G", "H", "I", "J", "K", "L", "M", "N", "O",
   "P", "Q", "R", "S", "T", "U", "V", "W", "X", "Y", "Z"}

\* /[A-Z]/.test(code) and /[0-9]/.test(code) (lines 61-62).
hasLetters(code) == \E i \in 1..Len(code) : code[i] \in UpperCase
hasNumbers(code) == \E i \in 1..Len(code) : code[i] \in DigitChars

\* Mutant: a code is accepted when it has a letter or a digit.
AcceptsCode_Either(code) == hasLetters(code) \/ hasNumbers(code)

\* The test of lines 64-66, negated: the draw is returned.
AcceptsCode(code) == ~(~hasLetters(code) \/ ~hasNumbers(code))

\* Math.floor(Math.random() * chars.length) for the values of Math.random
\* tried: the first and the last index, then the last letter and the first
\* digit.
DrawOrder == <<0, Len(AlnumChars) - 1, 25, 26>>
DrawSamples == {DrawOrder[i] : i \in 1..Min(NumDrawSamples, Len(DrawOrder))}

AlnumCall == [op |-> "generateAlphanumericCode", code |-> <<>>, redraws |-> 0,
              result |-> None]

\* One turn of the loop of lines 57-59.
DrawChar(k) ==
  /\ fn # None /\ fn.op = "generateAlphanumericCode"
  /\ fn.result = None
  /\ Len(fn.code) < CODE_LENGTH
  /\ fn' = [fn EXCEPT !.code = @ \o <<charAt(AlnumChars, k)>>]
  /\ UNCHANGED world

\* Lines 61-68: the draw is returned, or the function calls itself.
TestCode ==
  /\ fn # None /\ fn.op = "generateAlphanumericCode"
  /\ fn.result = None
  /\ Len(fn.code) = CODE_LENGTH
  /\ IF AcceptsCode(fn.code)
       THEN fn' = [fn EXCEPT !.result = Some(fn.code)]
       ELSE /\ fn.redraws < MaxRedraws
            /\ fn' = [fn EXCEPT !.code = <<>>, !.redraws = @ + 1]
  /\ UNCHANGED world

\* Mutant: the alphabet keeps the glyphs I and O.
DisplayChars_Full ==
  <<"0", "1", "2", "3", "4", "5", "6", "7", "8", "9",
    "A", "B", "C", "D", "E", "F", "G", "H", "I", "J", "K", "L", "M", "N", "O",
    "P", "Q", "R", "S", "T", "U", "V", "W", "X", "Y", "Z">>

\* chars of generateDisplayCode (line 76).
DisplayChars ==
  <<"0", "1", "2", "3", "4", "5", "6", "7", "8", "9",
    "A", "B", "C", "D", "E", "F", "G", "H", "J", "K", "L", "M", "N",
    "P", "Q", "R", "S", "T", "U", "V", "W", "X", "Y", "Z">>

\* Bytes of the md5 digest of the seed (parseInt of two hex digits, line 82)
\* and values of Math.floor(Math.random() * chars.length) (line 87) tried.
ByteOrder == <<255, 18, 0, 34>>
IndexOrder == <<Len(DisplayChars) - 1, 18, 0, 17>>
DisplayDraws(seeded) ==
  LET order == IF seeded THEN ByteOrder ELSE IndexOrder
  IN  {order[i] : i \in 1..Min(NumDrawSamples, Len(order))}

\* The index into chars: the byte modulo chars.length when seeded (line 82),
\* the random index otherwise (line 87).
DisplayIndex(seeded, v) == IF seeded THEN v % Len(DisplayChars) ELSE v

\* `${code.substring(0, 4)}-${code.substring(4)}` (line 91).
DisplayFormat(code) ==
  SubSeq(code, 1, Min(4, Len(code))) \o <<"-">> \o SubSeq(code, 5, Len(code))

DisplayCalls ==
  {[op |-> "generateDisplayCode", seeded |-> b, code |-> <<>>, result |-> None]
     : b \in BOOLEAN}

\* One turn of the loop of lines 81-84 (seeded) or 86-88 (random).
DisplayChar(v) ==
  /\ fn # None /\ fn.op = "generateDisplayCode"
  /\ fn.result = None
  /\ Len(fn.code) < 8
  /\ v \in DisplayDraws(fn.seeded)
  /\ fn' = [fn EXCEPT
              !.code = @ \o <<charAt(DisplayChars, DisplayIndex(fn.seeded, v))>>]
  /\ UNCHANGED world

\* Line 91: the eight characters are returned in two groups.
DisplayReturn ==
  /\ fn # None /\ fn.op = "generateDisplayCode"
  /\ fn.result = None
  /\ Len(fn.code) = 8
  /\ fn' = [fn EXCEPT !.result = Some(DisplayFormat(fn.code))]
  /\ UNCHANGED world

\* The strings handed to validateAndFormatPhoneNumber: up to MaxDigits
\* digits, bare or between the characters users type around a number.
DigitRun(n) ==
  [i \in 1..n |-> <<"0", "1", "2", "3", "4", "5", "6", "7", "8", "9">>[(i % 10) + 1]]
PhoneShapes ==
  { pre \o DigitRun(n) \o suf :
      pre \in {<<>>, <<"+">>, <<" ", "(">>, <<"a", "b", "c">>},
      suf \in {<<>>, <<" ">>, <<"-", "x">>},
      n \in 0..MaxDigits }

PhoneCalls ==
  UNION {{[op |-> "validateAndFormatPhoneNumber", input |-> p, lib |-> lib,
           result |-> None] : lib \in LibAnswers(p)} : p \in PhoneShapes}

\* Lines 95-145 for one input and one answer of the libraries.
ValidatePhone ==
  /\ fn # None /\ fn.op = "validateAndFormatPhoneNumber"
  /\ fn.result = None
  /\ fn' = [fn EXCEPT
              !.result = Some(validateAndFormatPhoneNumber(fn.input, fn.lib))]
  /\ UNCHANGED world

FnCalls == {AlnumCall} \cup DisplayCalls \cup PhoneCalls

FnInit ==
  /\ Loaded
  /\ budget = NoEvents
  /\ fn \in FnCalls

FnNext ==
  \/ \E k \in DrawSamples : DrawChar(k)
  \/ TestCode
  \/ \E v \in DisplayDraws(TRUE) \cup DisplayDraws(FALSE) : DisplayChar(v)
  \/ DisplayReturn
  \/ ValidatePhone

FnSpec == FnInit /\ [][FnNext]_vars

\* ================================================================ claims
TTL == 10 * 60
NotReadyStatuses == {"disconnected", "connecting", "error"}
ValidInput(p, lib) == p # <<>> /\ validateAndFormatPhoneNumber(p, lib).isValid

RegistryFrame ==
  /\ pairingCodes' = pairingCodes
  /\ timers' = timers
  /\ lastGeneratedCode' = lastGeneratedCode

\* C1: POST /generate-code with a valid phone number answers 503 with
\* success:false whenever botStatus is disconnected, connecting or error, and
\* the step creates no pairing record (registry, expiry timers and
\* lastGeneratedCode are as before).
C1_NotReadyIs503 ==
  [][\A p \in PhoneInputs : \A lib \in LibAnswers(p) :
       (botStatus \in NotReadyStatuses /\ ValidInput(p, lib) /\ GenerateCode(p, lib))
         => /\ response' # None
            /\ response'[1].op = "generate-code"
            /\ response'[1].status = 503
            /\ response'[1].success = FALSE
            /\ RegistryFrame]_vars

\* A 503 was just sent by /generate-code while the service was in error.
C1_Witness ==
  /\ response # None
  /\ response[1].op = "generate-code"
  /\ response[1].status = 503
  /\ botStatus = "error"

\* C2: POST /generate-code with a valid phone number while botStatus is
\* qr_ready or online answers 200 and leaves in the registry, under the
\* returned code, a pending record whose phoneNumber is the normalized number
\* of the response, with the returned displayCode and sessionId, and
\* expiresAt = generation time + 10 minutes.
C2_GenerateStoresRecord ==
  [][\A p \in PhoneInputs : \A lib \in LibAnswers(p) :
       (botStatus \in {"qr_ready", "online"} /\ ValidInput(p, lib)
          /\ GenerateCode(p, lib))
         => /\ response' # None
            /\ LET r == response'[1] IN
                 /\ r.op = "generate-code" /\ r.status = 200 /\ r.success
                 /\ r.phoneNumber = validateAndFormatPhoneNumber(p, lib).formatted
                 /\ r.code \in DOMAIN pairingCodes'
                 /\ LET rec == pairingCodes'[r.code] IN
                      /\ rec.status = "pending"
                      /\ rec.phoneNumber = r.phoneNumber
                      /\ rec.displayCode = r.displayCode
                      /\ rec.sessionId = r.sessionId
                      /\ rec.createdAt = now
                      /\ rec.expiresAt = now + TTL
                      /\ r.expiresAt = rec.expiresAt]_vars

\* /generate-code just answered 200 while online, and the record is stored.
C2_Witness ==
  /\ response # None
  /\ response[1].op = "generate-code"
  /\ response[1].status = 200
  /\ response[1].bot = "online"
  /\ response[1].code \in DOMAIN pairingCodes
  /\ pairingCodes[response[1].code].status = "pending"

\* C3: POST /generate-code with a missing or invalid phone number answers 400
\* with success:false in every botStatus, the not-ready ones included, and
\* generates nothing.
C3_InvalidIs400 ==
  [][\A p \in PhoneInputs : \A lib \in LibAnswers(p) :
       (~ValidInput(p, lib) /\ GenerateCode(p, lib))
         => /\ response' # None
            /\ response'[1].op = "generate-code"
            /\ response'[1].status = 400
            /\ response'[1].success = FALSE
            /\ RegistryFrame]_vars

\* A 400 was just sent by /generate-code while the service was not ready.
C3_Witness ==
  /\ response # None
  /\ response[1].op = "generate-code"
  /\ response[1].status = 400
  /\ botStatus = "connecting"

\* The answer /getqr owes a valid request that found the service in status
\* bot: 200 with an image in qr_ready, 200 without one in online, else 503.
GetQrAnswer(r, bot) ==
  /\ r.op = "getqr"
  /\ bot = "qr_ready" => (r.status = 200 /\ r.success /\ r.qrImage # None)
  /\ bot = "online" => (r.status = 200 /\ r.success /\ r.qrImage = None)
  /\ bot \notin {"qr_ready", "online"} => (r.status = 503 /\ ~r.success)

\* A valid /getqr request either answers at once as GetQrAnswer says, or, in
\* qr_ready with no image held, suspends at the rendering of the payload.
GetQrRequestStep ==
  \A p \in PhoneInputs : \A lib \in LibAnswers(p) :
    (ValidInput(p, lib) /\ GetQr(p, lib))
      => IF response' = None
           THEN botStatus = "qr_ready" /\ qrImageDataUrl = None
                  /\ BagCardinality(getqrCalls') = BagCardinality(getqrCalls) + 1
           ELSE GetQrAnswer(response'[1], botStatus)

\* C4 as stated: POST /getqr with a valid phone number answers 200 with a
\* non-null qrImage exactly when botStatus is qr_ready, 200 with qrImage null
\* exactly when it is online and 503 in every other status, whatever the
\* rendering of the image does.
C4_Original ==
  [][/\ GetQrRequestStep
     /\ \A c \in BagToSet(getqrCalls) : \A rendered \in BOOLEAN :
          \A code \in Codes : \A r \in Suffixes :
            GetQrRendered(c, rendered, code, r)
              => response' # None /\ GetQrAnswer(response'[1], c.bot)]_vars

\* C4, amended: botStatus = qr_ready implies a QR payload is held, so a valid
\* /getqr request never answers 503 in qr_ready; it answers 200 with qrImage
\* null exactly in online and 503 in every status but qr_ready and online; in
\* qr_ready it answers 200 with a non-null qrImage, except that a request that
\* had to render the image itself answers 500 when the rendering fails.
C4_GetQrByStatus ==
  /\ [](botStatus = "qr_ready" => currentQR # None)
  /\ [][/\ GetQrRequestStep
        /\ \A c \in BagToSet(getqrCalls) : \A rendered \in BOOLEAN :
             \A code \in Codes : \A r \in Suffixes :
               GetQrRendered(c, rendered, code, r)
                 => /\ response' # None
                    /\ c.bot = "qr_ready"
                    /\ IF rendered
                         THEN GetQrAnswer(response'[1], c.bot)
                         ELSE /\ response'[1].op = "getqr"
                              /\ response'[1].status = 500
                              /\ ~response'[1].success
                              /\ pairingCodes' = pairingCodes]_vars

\* /getqr just answered 200 with an image to a request made in qr_ready.
C4_Witness ==
  /\ response # None
  /\ response[1].op = "getqr"
  /\ response[1].status = 200
  /\ response[1].bot = "qr_ready"
  /\ response[1].qrImage # None

\* The expiry timers still pending for a code.
ExpiryPending(code) ==
  \E t \in BagToSet(timers) : t.kind = "expiry" /\ t.code = code

\* C5: a record generated at T and still pending is gone by T + TTL (no
\* pending record is in the registry after its expiresAt = createdAt + TTL),
\* and an expiry timer that fires leaves every linked record in the registry,
\* unchanged and still linked.
C5_ExpiryDeletesOnlyPending ==
  /\ [](\A c \in DOMAIN pairingCodes :
          pairingCodes[c].status = "pending"
            => /\ pairingCodes[c].expiresAt = pairingCodes[c].createdAt + TTL
               /\ now <= pairingCodes[c].expiresAt)
  /\ [][\A t \in BagToSet(timers) :
          (t.kind = "expiry" /\ FireTimer(t))
            => /\ \A c \in DOMAIN pairingCodes :
                    pairingCodes[c].status = "linked"
                      => c \in DOMAIN pairingCodes'
                           /\ pairingCodes'[c] = pairingCodes[c]
               /\ (t.code \in DOMAIN pairingCodes
                     /\ pairingCodes[t.code].status = "pending")
                    => t.code \notin DOMAIN pairingCodes']_vars

\* A linked record is past its expiresAt and every expiry timer of its code
\* has fired: it was linked before its TTL elapsed and outlived the timer.
C5_Witness ==
  \E c \in DOMAIN pairingCodes :
    /\ pairingCodes[c].status = "linked"
    /\ pairingCodes[c].linkedAt[1] < pairingCodes[c].expiresAt
    /\ now >= pairingCodes[c].expiresAt
    /\ ~ExpiryPending(c)

\* C6: a connection-open event turns every record pending at that moment
\* into a linked one with linkedAt = now, leaves every record already linked
\* as it was, adds and removes none, and leaves no record pending.
C6_OpenLinksPending ==
  [][\A s \in sockets : \A written \in BOOLEAN :
       OpenEvent(s, written)
         => /\ DOMAIN pairingCodes' = DOMAIN pairingCodes
            /\ \A c \in DOMAIN pairingCodes :
                 /\ pairingCodes[c].status = "pending"
                      => pairingCodes'[c] =
                           [pairingCodes[c] EXCEPT !.status = "linked",
                                                   !.linkedAt = Some(now)]
                 /\ pairingCodes[c].status = "linked"
                      => pairingCodes'[c] = pairingCodes[c]
                 /\ pairingCodes'[c].status # "pending"]_vars

\* A handle has reported open, a record was linked by it at this moment and
\* nothing is pending.
C6_Witness ==
  /\ botStatus = "online"
  /\ \E s \in sockets : s.st = "open"
  /\ \E c \in DOMAIN pairingCodes :
       pairingCodes[c].status = "linked" /\ pairingCodes[c].linkedAt = Some(now)
  /\ \A c \in DOMAIN pairingCodes : pairingCodes[c].status # "pending"

\* C7: under every key the status is monotonic, across every step: it is
\* pending, linked or expired, and a key whose record is linked or expired
\* never holds a pending record in the next state.
C7_StatusMonotonic ==
  [][\A c \in DOMAIN pairingCodes \cap DOMAIN pairingCodes' :
       /\ pairingCodes'[c].status \in {"pending", "linked", "expired"}
       /\ pairingCodes[c].status # "pending"
            => pairingCodes'[c].status # "pending"]_vars

\* A step ran generateNewPairingCode: it armed an expiry timer.
GenerateStep ==
  \E code \in Codes : timers' = setTimeout(timers, ExpiryTimer(code, now))

\* C8: a step that generates a code leaves every record already in the
\* registry in place and unchanged, so the new record is stored under a key
\* that was free.
C8_GenerateNeverOverwrites ==
  [][GenerateStep
       => \A c \in DOMAIN pairingCodes :
            c \in DOMAIN pairingCodes' /\ pairingCodes'[c] = pairingCodes[c]]_vars

\* C9 as stated: a connection-open event sets botStatus to online, resets the
\* attempt counter to 0 and leaves the status file holding status connected
\* with expiresAt = now + 30 days, whether or not the write succeeds.
C9_Original ==
  [][\A s \in sockets : \A written \in BOOLEAN :
       OpenEvent(s, written)
         => /\ botStatus' = "online"
            /\ autoActivationAttempts' = 0
            /\ sessionFile' # None
            /\ sessionFile'[1].status = "connected"
            /\ sessionFile'[1].expiresAt = now + 30 * 24 * 60 * 60]_vars

\* C9, amended: a connection-open event sets botStatus to online and resets
\* the attempt counter to 0; when the write of the status file succeeds the
\* file holds status connected with expiresAt = now + 30 days, and when the
\* write fails the file is left as it was.
C9_OpenSetsOnline ==
  [][\A s \in sockets : \A written \in BOOLEAN :
       OpenEvent(s, written)
         => /\ botStatus' = "online"
            /\ autoActivationAttempts' = 0
            /\ IF written
                 THEN /\ sessionFile' # None
                      /\ sessionFile'[1].status = "connected"
                      /\ sessionFile'[1].createdAt = now
                      /\ sessionFile'[1].expiresAt = now + 30 * 24 * 60 * 60
                 ELSE sessionFile' = sessionFile]_vars

\* A handle has reported open after a QR was shown: the counter is back at 0
\* and the file written at this moment holds the connected status.
C9_Witness ==
  /\ botStatus = "online"
  /\ autoActivationAttempts = 0
  /\ currentQR # None
  /\ \E s \in sockets : s.st = "open"
  /\ sessionFile = Some(ConnectedSessionInfo(now))

\* The reconnect a close event with this reason owes.
OwedReconnect(reason) ==
  [kind |-> "init", autoActivate |-> (reason = "loggedOut"), reset |-> FALSE,
   due |-> now + (IF reason = "temporary" THEN 3 ELSE 5)]

InitScheduled == \E t \in BagToSet(timers) : t.kind = "init"

\* The initWhatsApp calls made so far are numbered 1..seq.sock.
MaxInits == 1 + MaxClose + MaxInitFailures

FailuresInARow == seq.sock - Cardinality(inits)

\* C12: of the initialization failures in a row, the first
\* MAX_AUTO_ACTIVATION_ATTEMPTS are each retried after the fixed 10 seconds
\* and the next one is retried after the 30 second cooldown by a callback
\* that resets the attempt counter to 0.
C12_RetriesBounded ==
  [][\A i \in inits :
       (activeSocket = None /\ InitFail(i))
         => LET k == FailuresInARow + 1 IN
            timers' = setTimeout(timers,
              IF k % (MAX_AUTO_ACTIVATION_ATTEMPTS + 1) # 0
                THEN [kind |-> "init", autoActivate |-> TRUE, reset |-> FALSE,
                      due |-> now + 10]
                ELSE [kind |-> "init", autoActivate |-> TRUE, reset |-> TRUE,
                      due |-> now + 30])]_vars

\* C13: in every reachable state autoActivationAttempts is at most
\* MAX_AUTO_ACTIVATION_ATTEMPTS, and no /status response reports more
\* attempts than maxAutoActivationAttempts.
C13_CounterCapped ==
  /\ autoActivationAttempts <= MAX_AUTO_ACTIVATION_ATTEMPTS
  /\ (response # None /\ response[1].op = "status")
       => response[1].autoActivationAttempts
            <= response[1].maxAutoActivationAttempts

\* The positions of the shutdown log.
ShutdownSteps == 1..Len(shutdown)

\* C14: the SIGINT handler ends the session handle it holds before it asks
\* the listener to close, and the process exits only in the step in which the
\* listener has closed: process.exit is the last entry of the log, right
\* after the close of the listener, which comes after the handler's
\* server.close.
C14_GracefulShutdown ==
  /\ [][Sigint =>
          shutdown' = shutdown \o
            (IF activeSocket # None
               THEN <<"handle.end", "server.close">>
               ELSE <<"server.close">>)]_vars
  /\ [](\A i \in ShutdownSteps :
          shutdown[i] = "process.exit"
            => /\ i = Len(shutdown)
               /\ i > 2
               /\ shutdown[i - 1] = "listener closed"
               /\ \E j \in 1..(i - 2) : shutdown[j] = "server.close")
  /\ [](pc = "exited" <=> \E i \in ShutdownSteps : shutdown[i] = "process.exit")

\* The process has exited after a SIGINT received while a handle was held.
C14_Witness ==
  /\ pc = "exited"
  /\ shutdown = <<"handle.end", "server.close", "listener closed", "process.exit">>

\* C15: the lastCode of every /status response is null or a display code,
\* never the raw registry key, and every step that generates a record leaves
\* in lastGeneratedCode the displayCode of the record it has just stored.
C15_LastCodeIsDisplayCode ==
  /\ [](response # None /\ response[1].op = "status"
          => \/ response[1].lastCode = None
             \/ response[1].lastCode[1] = "display")
  /\ [][GenerateStep
          => \E c \in Codes :
               /\ timers' = setTimeout(timers, ExpiryTimer(c, now))
               /\ c \in DOMAIN pairingCodes'
               /\ lastGeneratedCode' = pairingCodes'[c].displayCode]_vars

\* C16: every code generateAlphanumericCode returns has exactly 8 characters,
\* each an upper-case letter or a digit, at least one of them a letter and at
\* least one a digit, also when earlier draws were rejected.
C16_CodeIsMixed ==
  (fn # None /\ fn.op = "generateAlphanumericCode" /\ fn.result # None)
    => LET code == fn.result[1] IN
       /\ Len(code) = 8
       /\ \A i \in 1..Len(code) : code[i] \in UpperCase \cup DigitChars
       /\ \E i \in 1..Len(code) : code[i] \in UpperCase
       /\ \E i \in 1..Len(code) : code[i] \in DigitChars

\* A code was returned after a draw without a letter or without a digit
\* had been rejected.
C16_Witness ==
  /\ fn # None /\ fn.op = "generateAlphanumericCode"
  /\ fn.result # None
  /\ fn.redraws > 0

\* C17: every display code, seeded or random, is two groups of exactly four
\* characters joined by one hyphen, every character of the groups a digit or
\* an upper-case letter other than I and O.
C17_DisplayCodePattern ==
  (fn # None /\ fn.op = "generateDisplayCode" /\ fn.result # None)
    => LET code == fn.result[1] IN
       /\ Len(code) = 9
       /\ code[5] = "-"
       /\ \A i \in (1..4) \cup (6..9) :
            code[i] \in DigitChars \cup (UpperCase \ {"I", "O"})

\* A seeded display code was returned whose digest bytes reach past the end
\* of the alphabet.
C17_Witness ==
  /\ fn # None /\ fn.op = "generateDisplayCode"
  /\ fn.seeded
  /\ fn.result # None
  /\ \E i \in 1..Len(fn.result[1]) : fn.result[1][i] = "H"

\* The digits an input contains, counted without stripping anything.
DigitCount(p) == Cardinality({i \in 1..Len(p) : p[i] \in DigitChars})

\* C18: when both library parses fail, the normalizer answers isValid:true
\* exactly for the inputs that contain 8 to 15 digits; empty inputs, inputs
\* without digits and inputs with more than 15 digits are invalid; every
\* valid result carries a formatted value that starts with '+'.
C18_FallbackValidation ==
  (fn # None /\ fn.op = "validateAndFormatPhoneNumber" /\ fn.result # None)
    => LET r == fn.result[1]
           n == DigitCount(fn.input)
       IN  /\ fn.lib = "none" => (r.isValid <=> (n >= 8 /\ n <= 15))
           /\ (fn.lib = "none" /\ (fn.input = <<>> \/ n = 0 \/ n > 15))
                => ~r.isValid
           /\ r.isValid => (r.formatted # <<>> /\ Head(r.formatted) = "+")

\* The libraries rejected an input of 15 digits wrapped in other characters
\* and the basic validation accepted it.
C18_Witness ==
  /\ fn # None /\ fn.op = "validateAndFormatPhoneNumber"
  /\ fn.result # None
  /\ fn.lib = "none"
  /\ DigitCount(fn.input) = 15
  /\ Len(fn.input) > 15
  /\ fn.result[1].isValid

\* What a rendered qr-available event leaves in memory: botStatus as it was,
\* one more attempt, one pending record under the new code and every other
\* record untouched.
QrOutcome(code) ==
  /\ botStatus' = botStatus
  /\ autoActivationAttempts' = autoActivationAttempts + 1
  /\ DOMAIN pairingCodes' = DOMAIN pairingCodes \cup {code}
  /\ pairingCodes'[code].status = "pending"
  /\ pairingCodes'[code].createdAt = now
  /\ \A c \in DOMAIN pairingCodes \ {code} : pairingCodes'[c] = pairingCodes[c]

\* What a connection-open event leaves in memory: online, the attempts reset,
\* every pending record linked at this instant and every other one untouched.
OpenOutcome ==
  /\ botStatus' = "online"
  /\ autoActivationAttempts' = 0
  /\ DOMAIN pairingCodes' = DOMAIN pairingCodes
  /\ \A c \in DOMAIN pairingCodes :
       IF pairingCodes[c].status = "pending"
         THEN /\ pairingCodes'[c].status = "linked"
              /\ pairingCodes'[c].linkedAt = Some(now)
         ELSE pairingCodes'[c] = pairingCodes[c]

\* C19: a failing write of the status file is ignored: a qr-available event
\* and a connection-open event leave botStatus, the attempt counter and the
\* registry the same whether the write failed or succeeded; and an
\* initialization goes on, botStatus 'connecting' and the call pending, also
\* when the status file cannot be read.
C19_PersistenceFailureIgnored ==
  [][/\ \A h \in qrHandlers, code \in Codes, r \in Suffixes, written \in BOOLEAN :
          QrRendered(h, TRUE, code, r, written) => QrOutcome(code)
     /\ \A s \in sockets, written \in BOOLEAN :
          OpenEvent(s, written) => OpenOutcome
     /\ seq'.sock > seq.sock
          => /\ botStatus' = "connecting"
             /\ Cardinality(inits') = Cardinality(inits) + 1
             /\ \A i \in inits' \ inits :
                  i.existingSession \in {None, sessionFile}]_vars

\* The connection opened while the status file could not be written: the
\* file still says qr_ready, the process is online with the attempts reset
\* and the pending code linked.
C19_Witness ==
  /\ botStatus = "online"
  /\ autoActivationAttempts = 0
  /\ sessionFile # None /\ sessionFile[1].status = "qr_ready"
  /\ \E c \in DOMAIN pairingCodes : pairingCodes[c].status = "linked"

\* C20: botStatus becomes 'error' only after the retry budget is exhausted:
\* no step enters 'error' while the attempt counter is below
\* MAX_AUTO_ACTIVATION_ATTEMPTS.
C20_ErrorOnlyAfterBudget ==
  [][(botStatus' = "error" /\ botStatus # "error")
       => autoActivationAttempts' >= MAX_AUTO_ACTIVATION_ATTEMPTS]_vars

\* C21: a qr-available event on a handle created without auto-activation
\* changes nothing: botStatus, currentQR, the QR image, the registry,
\* lastGeneratedCode, the attempt counter and the status file stay as they
\* were, and no handler is left waiting for a rendering.
C21_QrIgnoredWithoutAutoActivation ==
  [][\A s \in sockets :
       (QrEvent(s) /\ ~s.autoActivate)
         => UNCHANGED <<botStatus, currentQR, qrImageDataUrl, pairingCodes,
                        lastGeneratedCode, autoActivationAttempts, sessionFile,
                        qrHandlers>>]_vars

\* A handle created by the reconnect after a transient or other close has
\* emitted a qr: a payload was produced and none is held.
C21_Witness ==
  /\ seq.qr > 0
  /\ currentQR = None
  /\ \E s \in sockets : ~s.autoActivate

\* The reconnect and retry timers that are armed.
InitTimers == {t \in BagToSet(timers) : t.kind = "init"}
RECURSIVE CopiesOf(_)
CopiesOf(ts) ==
  IF ts = {} THEN 0
  ELSE LET t == CHOOSE x \in ts : TRUE
       IN  CopiesIn(t, timers) + CopiesOf(ts \ {t})

\* C22: at any time at most one handle is live (created and not yet closed)
\* and at most one initWhatsApp call or reconnect timer is outstanding.
C22_SingleHandle ==
  /\ Cardinality(sockets) <= 1
  /\ Cardinality(inits) + CopiesOf(InitTimers) <= 1

\* A handle is live that was obtained at the third initialization: after a
\* close and a failed initialization.
C22_Witness ==
  /\ Cardinality(sockets) = 1
  /\ seq.sock >= 3
  /\ \E s \in sockets : s.id = seq.sock

\* pairingCodes.size
Size(reg) == Cardinality(DOMAIN reg)

\* A step ran an expiry callback that deleted its record.
ExpiryDeletionStep ==
  \E t \in BagToSet(timers) :
    /\ t.kind = "expiry"
    /\ FireTimer(t)
    /\ ExpiryDeletes(pairingCodes, t.code)

\* C23: the size of the registry counts the outstanding records: every step
\* that generates a record increases it by exactly one, every expiry deletion
\* decreases it by exactly one, and no other step changes it.
C23_SizeCountsRecords ==
  [][/\ GenerateStep => Size(pairingCodes') = Size(pairingCodes) + 1
     /\ ExpiryDeletionStep => Size(pairingCodes') = Size(pairingCodes) - 1
     /\ (~GenerateStep /\ ~ExpiryDeletionStep)
          => Size(pairingCodes') = Size(pairingCodes)]_vars

\* C24: in every reachable state every record has linkedAt non-null exactly
\* when its status is linked, and a connection-open event leaves every
\* linkedAt that is set as it was.
C24_LinkedAtSetOnce ==
  /\ [](\A c \in DOMAIN pairingCodes :
          pairingCodes[c].linkedAt # None <=> pairingCodes[c].status = "linked")
  /\ [][\A s \in sockets : \A written \in BOOLEAN :
          OpenEvent(s, written)
            => \A c \in DOMAIN pairingCodes :
                 pairingCodes[c].linkedAt # None
                   => /\ c \in DOMAIN pairingCodes'
                      /\ pairingCodes'[c].linkedAt = pairingCodes[c].linkedAt]_vars

\* A second handle has reported open while the registry held a record
\* linked by the first, before any reconnect could have taken place.
C24_Witness ==
  /\ botStatus = "online"
  /\ \E s \in sockets : s.st = "open" /\ s.id >= 2
  /\ \E c \in DOMAIN pairingCodes :
       /\ pairingCodes[c].status = "linked"
       /\ pairingCodes[c].linkedAt # None
       /\ pairingCodes[c].linkedAt[1] < TEMPORARY_DELAY_S

\* A step wrote the status file and the write succeeded.
FileWritten == sessionFile' # sessionFile /\ sessionFile' # None

\* C25: the status file reflects the most recent transition: every write
\* that succeeds leaves status connected in the file when botStatus is
\* online, and none writes qr_ready while a handle that has reported open is
\* live.
C25_FileReflectsLatest ==
  [][FileWritten
       => /\ botStatus' = "online" => sessionFile'[1].status = "connected"
          /\ (\E s \in sockets : s.st = "open")
               => sessionFile'[1].status # "qr_ready"]_vars

\* C26: the QR payload and the QR image of a record belong together: for
\* every record whose qrData is non-null, qrImage is the rendering of that
\* same payload (an image is identified by the payload it renders).
C26_SnapshotBelongsTogether ==
  \A c \in DOMAIN pairingCodes :
    pairingCodes[c].qrData # None
      => pairingCodes[c].qrImage = pairingCodes[c].qrData

\* The initWhatsApp timers the step armed, and the delay of the one armed.
ArmedTimers ==
  {t \in BagToSet(timers') :
     t.kind = "init" /\ CopiesIn(t, timers') = CopiesIn(t, timers) + 1}
ArmedDelay == (CHOOSE t \in ArmedTimers : TRUE).due - now

\* The step is the close branch run for this reason.
ClosedFor(reason) ==
  \E s \in sockets, uc \in BOOLEAN, us \in BOOLEAN : CloseEvent(s, reason, uc, us)

\* C27 as stated: the delay armed by a logged-out close is strictly longer
\* than the one of an 'other' close, which is strictly longer than the one of
\* a transient close.
C27_Original ==
  [][/\ (\E reason \in Reasons : ClosedFor(reason)) => ArmedTimers # {}
     /\ ClosedFor("loggedOut")
          => ArmedDelay > ReconnectDelay("other")
     /\ ClosedFor("other")
          => /\ ArmedDelay > ReconnectDelay("temporary")
             /\ ArmedDelay < ReconnectDelay("loggedOut")
     /\ ClosedFor("temporary")
          => ArmedDelay < ReconnectDelay("other")]_vars

\* C27, amended: the delay armed by a logged-out close equals the one of an
\* 'other' close, and both are strictly longer than the one of a transient
\* close.
C27_DelaysOrdered ==
  [][/\ (\E reason \in Reasons : ClosedFor(reason)) => ArmedTimers # {}
     /\ ClosedFor("loggedOut")
          => /\ ArmedDelay = ReconnectDelay("other")
             /\ ArmedDelay > ReconnectDelay("temporary")
     /\ ClosedFor("other")
          => /\ ArmedDelay > ReconnectDelay("temporary")
             /\ ArmedDelay = ReconnectDelay("loggedOut")
     /\ ClosedFor("temporary")
          => /\ ArmedDelay < ReconnectDelay("other")
             /\ ArmedDelay < ReconnectDelay("loggedOut")]_vars

\* A logged-out close has deleted the credentials and armed its reconnect,
\* with a fresh QR asked for.
C27_Witness ==
  /\ ~credsFile
  /\ sockets = {}
  /\ \E t \in BagToSet(timers) :
       /\ t.kind = "init"
       /\ t.autoActivate
       /\ t.due = now + LOGGED_OUT_DELAY_S

\* The digits of an input, in order, everything else left out.
IsDigit(ch) == ch \in DigitChars
Stripped(p) == SelectSeq(p, IsDigit)

\* C28: in the digits-only fallback, for every input with n digits, n in
\* 8..15, the assumed country code is the first min(3, n - 7) digits and has 1
\* to 3 of them, the national number is the rest and has at least 7, and the
\* two put together are the stripped digit string.
C28_FallbackSplit ==
  (/\ fn # None /\ fn.op = "validateAndFormatPhoneNumber"
   /\ fn.result # None /\ fn.lib = "none"
   /\ Len(Stripped(fn.input)) \in 8..15)
    => LET r == fn.result[1]
           d == Stripped(fn.input)
           n == Len(d)
       IN  /\ r.isValid
           /\ r.countryCode = SubSeq(d, 1, IF n - 7 < 3 THEN n - 7 ELSE 3)
           /\ Len(r.countryCode) \in 1..3
           /\ Len(r.nationalNumber) >= 7
           /\ r.countryCode \o r.nationalNumber = d

\* The fallback has split an input of 8 digits: one digit of country code,
\* seven of national number.
C28_Witness ==
  /\ fn # None /\ fn.op = "validateAndFormatPhoneNumber"
  /\ fn.result # None /\ fn.lib = "none"
  /\ Len(Stripped(fn.input)) = 8
  /\ fn.result[1].isValid
  /\ Len(fn.result[1].countryCode) = 1

\* C29: the QR image POST /getqr returns while botStatus is qr_ready is the
\* rendering of the payload held in currentQR when the response is sent (an
\* image is identified by the payload it renders), never the image of an
\* earlier payload.
C29_GetQrImageIsCurrent ==
  (/\ response # None
   /\ response[1].op = "getqr"
   /\ response[1].status = 200
   /\ response[1].bot = "qr_ready")
    => response[1].qrImage = currentQR

\* C30: while the library has a qr to emit on the handles to come, a service
\* that is connecting on a handle obtained after the first (after a close or
\* a failed initialization) gets to qr_ready or online again, unless the
\* process exits: it does not stay connecting forever.
C30_RecoversAfterClose ==
  (botStatus = "connecting" /\ seq.sock >= 2 /\ budget.qr > 0)
    ~> (botStatus \in {"qr_ready", "online"} \/ pc = "exited")

\* C31: a /generate-code or /getqr request succeeds only while the handle
\* whose qr or open event made the service ready is still live: once its
\* close has been processed (no handle is left), no such request answers 200.
C31_NoSuccessOnStaleStatus ==
  (/\ response # None
   /\ response[1].op \in {"generate-code", "getqr"}
   /\ response[1].status = 200)
    => sockets # {}

\* C32: once SIGINT has been received no new external session is started:
\* no step of a process that is shutting down calls initWhatsApp (the count
\* of calls stays as it was), whatever close event or timer is pending.
C32_NoInitAfterSigint ==
  [][(pc = "closing" \/ pc = "exited") => seq'.sock = seq.sock]_vars

\* C33: a pending record is never deleted before its own TTL has elapsed: a
\* step that removes a pending record from the registry is taken at or after
\* the expiresAt of that record.
C33_NoEarlyDeletion ==
  [][\A c \in DOMAIN pairingCodes :
       (pairingCodes[c].status = "pending" /\ c \notin DOMAIN pairingCodes')
         => now >= pairingCodes[c].expiresAt]_vars

\* The globals a request that does not succeed must leave alone.
RequestFrame ==
  <<pairingCodes, lastGeneratedCode, botStatus, currentQR, autoActivationAttempts>>

\* C34: requests that do not succeed are side-effect free: a /generate-code or
\* /getqr request answered with 400 or 503, and every GET /status and GET
\* /health, leaves the registry, lastGeneratedCode, botStatus, currentQR and
\* the attempt counter unchanged.
C34_FailedRequestsChangeNothing ==
  [][(/\ response' # None
      /\ \/ /\ response'[1].op \in {"generate-code", "getqr"}
            /\ response'[1].status \in {400, 503}
         \/ response'[1].op \in {"status", "health"})
       => UNCHANGED RequestFrame]_vars

\* A /getqr request was refused with 503 while the registry held a record and
\* lastGeneratedCode was set.
C34_Witness ==
  /\ response # None
  /\ response[1].op = "getqr"
  /\ response[1].status = 503
  /\ DOMAIN pairingCodes # {}
  /\ lastGeneratedCode # None

====
